---- MODULE Spec2Model ----
(***************************************************************************)
(* Model of the Configuration class (src/ui/web/package.json, lines        *)
(* 68-510): the lazily loaded, cached configuration document, the file     *)
(* watcher that invalidates it, the reload callback, and the section       *)
(* accessors computed from the cached document.                            *)
(*                                                                         *)
(* The class runs on the Node.js event loop: an accessor is synchronous    *)
(* and runs to completion, the watcher's listener is a task of its own,    *)
(* and the reload callback is an asynchronous function whose execution     *)
(* spans several tasks.  The configuration file belongs to the file        *)
(* system: its content can change at any time, also between two reads      *)
(* made by one accessor.                                                   *)
(***************************************************************************)
EXTENDS Integers, Sequences, FiniteSets, TLC

(***************************************************************************)
(* Bounds of the model.                                                    *)
(***************************************************************************)
\* Document instances are told apart by an identity drawn from 1..MaxInstances,
\* reused cyclically (at most one instance is referenced by the cache).
MaxInstances == 2
\* Most executions of the reload callback in progress at once.
MaxRunning == 2
\* A file change during an accessor happens after its 1st .. MaxChangeAt-th
\* getConfig call.
MaxChangeAt == 1

(***************************************************************************)
(* JavaScript values.  Scalars are boxed so that values of different       *)
(* types can be compared; objects are functions from property names.       *)
(***************************************************************************)
Undefined == [undefined |-> TRUE]
JsNull == [null |-> TRUE]
Num(n) == [num |-> n]
NaN == [nan |-> TRUE]
Bool(b) == [bool |-> b]
Str(s) == [str |-> s]
\* A string whose characters matter, as the sequence of its characters.
Chars(s) == [chars |-> s]
Arr(s) == [arr |-> s]
EmptyObject == [k \in {} |-> Undefined]

\* obj[key] on an object: undefined when the property is missing.
Get(obj, key) == IF key \in DOMAIN obj THEN obj[key] ELSE Undefined

\* obj[key] = value, in place.
Put(obj, key, value) == [k \in DOMAIN obj \cup {key} |-> IF k = key THEN value ELSE obj[k]]

\* Utils.isUndefined
isUndefined(v) == v = Undefined

\* An object (a function from property names), as opposed to a boxed scalar.
BoxTags == {"undefined", "null", "num", "nan", "bool", "str", "chars", "arr", "const", "href"}
isObject(v) == DOMAIN v \cap BoxTags = {}

(***************************************************************************)
(* The cached document: null, or a reference to a document instance.  Two  *)
(* loads of the same file content give two instances.                      *)
(***************************************************************************)
Null == [id |-> 0, doc |-> EmptyObject]
IsNull(c) == c.id = 0
Instance(i, d) == [id |-> i, doc |-> d]

(***************************************************************************)
(* The configuration file as the file system holds it: no file, a text     *)
(* that is not JSON, or the JSON text of a ConfigurationData object.       *)
(***************************************************************************)
FileMissing == [kind |-> "missing"]
FileMalformed == [kind |-> "malformed"]
FileObject(d) == [kind |-> "object", doc |-> d]

\* Callbacks a caller can register; "undefined" is the unset static field.
NoCallback == "undefined"
Callbacks == {"cb1", "cb2"}

VARIABLES
  configuration,                \* Configuration.configuration
  configurationFileWatcher,     \* Configuration.configurationFileWatcher is set
  configurationChangeCallback,  \* Configuration.configurationChangeCallback
  file,                         \* content of assets/config.json
  env,                          \* process environment (cloud predicate, PORT)
  instance,                     \* identity of the last document instance created
  running,                      \* executions of the reload callback in progress
  cycle,                        \* history: reads since the last invalidation
  hist,                         \* history: the last registration of a callback, and
                                \* whether it replaced another one after the
                                \* watcher was created
  last                          \* history: what the last operation did

vars == <<configuration, configurationFileWatcher, configurationChangeCallback,
          file, env, instance, running, cycle, hist, last>>

(***************************************************************************)
(* One synchronous task (an accessor call, a listener call) works on a     *)
(* record of the static fields and of what the task has done so far.       *)
(*   calls, reads    getConfig calls and physical read attempts            *)
(*   seen            identities of the documents getConfig returned        *)
(*   sawNull         getConfig returned null at least once                 *)
(*   watches         fs.watch subscriptions created                        *)
(*   warned, logged  deprecation warnings, file exceptions logged          *)
(*   effects         what a listener call did, in order                    *)
(*   thrown          the exception that ended the task, or "none"          *)
(*   val             value of the last expression evaluated                *)
(*   acc             the object literal the accessor is building           *)
(*   changeAt, fileAfter  the file system replaces the file content by     *)
(*                   fileAfter after the changeAt-th getConfig call        *)
(***************************************************************************)
Task(changeAt, fileAfter) ==
  [configuration |-> configuration,
   watcher |-> configurationFileWatcher,
   callback |-> configurationChangeCallback,
   file |-> file,
   instance |-> instance,
   running |-> running,
   cycle |-> cycle,
   calls |-> 0, reads |-> 0, seen |-> {}, sawNull |-> FALSE, watches |-> 0,
   warned |-> <<>>, logged |-> <<>>, effects |-> <<>>,
   thrown |-> "none", val |-> Undefined, acc |-> EmptyObject,
   changeAt |-> changeAt, fileAfter |-> fileAfter]

Threw(st) == st.thrown # "none"
Throw(st, error) == [st EXCEPT !.thrown = error]

\* The file system changes the file content between two getConfig calls.
FileSystemStep(st) ==
  IF st.changeAt > 0 /\ st.calls = st.changeAt
  THEN [st EXCEPT !.file = st.fileAfter]
  ELSE st

\* A change scheduled after the last getConfig call of the task.
FileSystemEnd(st) ==
  IF st.changeAt > 0 /\ st.calls <= st.changeAt
  THEN [st EXCEPT !.file = st.fileAfter]
  ELSE st

NextInstance(i) == (i % MaxInstances) + 1

\* What has happened since the process started or the cache was last
\* invalidated: an accessor call, a read attempt, a second one, a read and
\* parse that gave a document, a read attempt after that.
NewCycle == [accessed |-> FALSE, read |-> FALSE, reread |-> FALSE, loaded |-> FALSE,
             readAfterLoad |-> FALSE]

\* handleFileException: classifies the error code and logs a warning.
handleFileException(st, code) ==
  LET logMsg == CASE code = "ENOENT" -> "not found"
                  [] code = "EEXIST" -> "already exists"
                  [] code = "EACCES" -> "access denied"
                  [] OTHER -> "error"
  IN [st EXCEPT !.logged = Append(@, logMsg)]

\* The mutant of ReadConfigurationFile that parses the file and does not store
\* the document in the static field.
ReadConfigurationFileUnstored(st) ==
  LET counted == [st EXCEPT !.reads = @ + 1,
                            !.cycle.read = TRUE,
                            !.cycle.reread = st.cycle.read,
                            !.cycle.readAfterLoad = @ \/ st.cycle.loaded]
  IN CASE st.file.kind = "missing" -> handleFileException(counted, "ENOENT")
       [] st.file.kind = "malformed" -> handleFileException(counted, "SyntaxError")
       [] OTHER -> [counted EXCEPT !.cycle.loaded = TRUE]

\* JSON.parse(fs.readFileSync(configurationFile)) inside the try of getConfig.
ReadConfigurationFile(st) ==
  LET counted == [st EXCEPT !.reads = @ + 1,
                            !.cycle.read = TRUE,
                            !.cycle.reread = st.cycle.read,
                            !.cycle.readAfterLoad = @ \/ st.cycle.loaded]
  IN CASE st.file.kind = "missing" -> handleFileException(counted, "ENOENT")
       [] st.file.kind = "malformed" -> handleFileException(counted, "SyntaxError")
       [] OTHER ->
            [counted EXCEPT !.configuration =
                               Instance(NextInstance(st.instance), st.file.doc),
                            !.instance = NextInstance(@),
                            !.cycle.loaded = TRUE]

\* getConfigurationFileWatcher: fs.watch throws when the file does not exist.
getConfigurationFileWatcher(st) ==
  IF st.file.kind = "missing"
  THEN handleFileException(st, "ENOENT")
  ELSE [st EXCEPT !.watcher = TRUE, !.watches = @ + 1]

\* What getConfig returns, recorded in the history of the task.
Returned(st) ==
  [st EXCEPT !.calls = @ + 1,
             !.seen = IF IsNull(st.configuration) THEN @ ELSE @ \cup {st.configuration.id},
             !.sawNull = @ \/ IsNull(st.configuration)]

\* The mutant of EnsureWatcher that subscribes on every load.
EnsureWatcherAlways(st) == getConfigurationFileWatcher(st)

\* if (!configurationFileWatcher) configurationFileWatcher = getConfigurationFileWatcher()
EnsureWatcher(st) == IF st.watcher THEN st ELSE getConfigurationFileWatcher(st)

\* The mutant of getConfig that ignores the cache and reads on every call.
getConfigUncached(st) ==
  Returned(EnsureWatcher(ReadConfigurationFile(FileSystemStep(st))))

\* The mutant of LoadIfAbsent that invokes the registered callback after a
\* load that gave a document.
LoadIfAbsentNotifies(st) ==
  IF IsNull(st.configuration)
  THEN [EnsureWatcher(ReadConfigurationFile(st)) EXCEPT
          !.running = IF st.callback # NoCallback /\ st.file.kind = "object"
                      THEN @ + 1 ELSE @]
  ELSE st

\* The mutant of LoadIfAbsent that attempts the read once per invalidation
\* cycle and keeps the outcome of a failed attempt.
LoadIfAbsentOnce(st) ==
  IF IsNull(st.configuration) /\ ~st.cycle.read
  THEN EnsureWatcher(ReadConfigurationFile(st))
  ELSE st

\* The body of getConfig on the file as it is at the time of the call.
LoadIfAbsent(st) ==
  IF IsNull(st.configuration) THEN EnsureWatcher(ReadConfigurationFile(st)) ELSE st

\* getConfig: the cached document, loaded first when the cache is empty.
getConfig(st) == Returned(LoadIfAbsent(FileSystemStep(st)))

(***************************************************************************)
(* The three ways the accessors read the document.                         *)
(***************************************************************************)
\* Utils.hasOwnProp(object, property)
hasOwnProp(object, property) == ~IsNull(object) /\ property \in DOMAIN object.doc

\* The task ends with the value v in val.
Return(st, v) == IF Threw(st) THEN st ELSE [st EXCEPT !.val = v]

\* Utils.hasOwnProp(<what getConfig returned>, key)
HasOwnOf(st, key) == Return(st, Bool(hasOwnProp(st.configuration, key)))

\* Utils.hasOwnProp(Configuration.getConfig(), key)
HasOwn(st, key) == IF Threw(st) THEN st ELSE HasOwnOf(getConfig(st), key)

\* <what getConfig returned>?.key
OptOf(st, key) ==
  Return(st, IF IsNull(st.configuration) THEN Undefined ELSE Get(st.configuration.doc, key))

\* Configuration.getConfig()?.key
Opt(st, key) == IF Threw(st) THEN st ELSE OptOf(getConfig(st), key)

\* <what getConfig returned>[key]: a TypeError on null.
IndexOf(st, key) ==
  IF IsNull(st.configuration) THEN Throw(st, "TypeError")
  ELSE Return(st, Get(st.configuration.doc, key))

\* Configuration.getConfig()[key]: a TypeError when getConfig returns null.
Index(st, key) == IF Threw(st) THEN st ELSE IndexOf(getConfig(st), key)

\* test ? Configuration.getConfig()?.key : default, the test's value being in val
Conditional(st, key, default) ==
  IF Threw(st) THEN st
  ELSE IF st.val = Bool(TRUE) THEN Opt(st, key)
  ELSE Return(st, default)

\* hasOwnProp(getConfig(), key) ? getConfig()?.key : default
OwnOr(st, key, default) == Conditional(HasOwn(st, key), key, default)

\* console.error of a deprecation message.
Warn(st, key, section) == [st EXCEPT !.warned = Append(@, [key |-> key, section |-> section])]

\* A value defined in a module of the repository other than Configuration.
Const(name) == [const |-> name]

\* The console.error of a branch whose test !isUndefined(...) has its operand in val.
WarnIfDefined(st, key, section) ==
  IF Threw(st) \/ isUndefined(st.val) THEN st ELSE Warn(st, key, section)

\* else if (!isUndefined(getConfig()[key])) console.error(...)
WarnTopLevelKey(st, key) == WarnIfDefined(Index(st, key), key, "")

\* !isUndefined(getConfig()[sectionName][key]), the section being in val
WarnSectionKey(st, key, sectionName) ==
  IF Threw(st) THEN st
  ELSE IF st.val = JsNull THEN Throw(st, "TypeError")
  ELSE IF isObject(st.val) /\ ~isUndefined(Get(st.val, key))
       THEN Warn(st, key, sectionName)
  ELSE WarnTopLevelKey(st, key)

\* !isUndefined(getConfig()[sectionName]) && ..., the section being in val
WarnInSection(st, key, sectionName) ==
  IF Threw(st) THEN st
  ELSE IF isUndefined(st.val) THEN WarnTopLevelKey(st, key)
  ELSE WarnSectionKey(Index(st, sectionName), key, sectionName)

\* warnDeprecatedConfigurationKey(key, sectionName); sectionName "" is undefined.
warnDeprecatedConfigurationKey(st, key, sectionName) ==
  IF Threw(st) THEN st
  ELSE IF sectionName = "" THEN WarnTopLevelKey(st, key)
  ELSE WarnInSection(Index(st, sectionName), key, sectionName)

(***************************************************************************)
(* Section accessors.  Each takes the task record and leaves its result    *)
(* in val.                                                                 *)
(***************************************************************************)
getLogStatisticsInterval(st) ==
  OwnOr(warnDeprecatedConfigurationKey(st, "statisticsDisplayInterval", ""),
        "logStatisticsInterval", Const("DEFAULT_LOG_STATISTICS_INTERVAL"))

\* merge of the just-merge package: a shallow assign of obj2's properties to obj1.
merge(obj1, obj2) ==
  [k \in DOMAIN obj1 \cup DOMAIN obj2 |-> IF k \in DOMAIN obj2 THEN obj2[k] ELSE obj1[k]]

Digits == <<"0", "1", "2", "3", "4", "5", "6", "7", "8", "9">>
IsDigit(c) == \E d \in 1..Len(Digits) : Digits[d] = c
DigitValue(c) == (CHOOSE d \in 1..Len(Digits) : Digits[d] = c) - 1

RECURSIVE ParseDigits(_, _, _)
ParseDigits(chars, i, acc) ==
  IF i > Len(chars) \/ ~IsDigit(chars[i]) THEN acc
  ELSE ParseDigits(chars, i + 1, acc * 10 + DigitValue(chars[i]))

\* parseInt(string): the leading decimal digits, NaN when there are none
\* (also for undefined, which parseInt converts to the string "undefined").
parseInt(string) ==
  IF string = Undefined THEN NaN
  ELSE IF Len(string.chars) = 0 \/ ~IsDigit(string.chars[1]) THEN NaN
  ELSE Num(ParseDigits(string.chars, 1, 0))

\* Utils.isCFEnvironment
isCFEnvironment == env.cf

\* The mutant of cloudHostOverride that sets the port and keeps the host.
cloudHostOverrideKeepsHost(options) ==
  [k \in DOMAIN options \cup {"port"} |->
     IF k = "port" THEN parseInt(env.PORT) ELSE options[k]]

\* delete options?.host; options.port = parseInt(process.env.PORT)
cloudHostOverride(options) ==
  [k \in (DOMAIN options \ {"host"}) \cup {"port"} |->
     IF k = "port" THEN parseInt(env.PORT) ELSE options[k]]

\* The uiServerConfiguration literal of getUIServer.
DefaultUIServer ==
  [enabled |-> Bool(FALSE),
   type |-> Const("ApplicationProtocol.WS"),
   options |-> [host |-> Const("DEFAULT_UI_SERVER_HOST"),
                port |-> Const("DEFAULT_UI_SERVER_PORT")]]

\* if (hasOwnProp(getConfig(), 'uiWebSocketServer')) console.error(...)
WarnUIWebSocketServer(st) ==
  IF st.val = Bool(TRUE) THEN Warn(st, "uiWebSocketServer", "") ELSE st

\* merge(uiServerConfiguration, getConfig()?.uiServer), the section being in val
MergeUIServer(st) ==
  IF ~isObject(st.val) THEN Throw(st, "Error") ELSE Return(st, merge(DefaultUIServer, st.val))

\* if (hasOwnProp(getConfig(), 'uiServer')) uiServerConfiguration = merge(...)
UIServerSection(st) ==
  IF st.val = Bool(TRUE) THEN MergeUIServer(Opt(st, "uiServer"))
  ELSE Return(st, DefaultUIServer)

\* After the shallow merge the options of the result are the document's own
\* options object whenever the document's section has options: what is done
\* to them is done to the cached document.
SharesOptions(st) ==
  /\ hasOwnProp(st.configuration, "uiServer")
  /\ "options" \in DOMAIN st.configuration.doc.uiServer

SetOptions(st, options) ==
  [st EXCEPT !.val.options = options,
             !.configuration =
                IF SharesOptions(st) THEN [@ EXCEPT !.doc.uiServer.options = options] ELSE @]

\* if (isCFEnvironment() === true) { delete ...; ... = parseInt(...) }
CloudOverride(st) ==
  IF Threw(st) \/ ~isCFEnvironment THEN st
  ELSE IF ~isObject(st.val.options) THEN Throw(st, "TypeError")
  ELSE SetOptions(st, cloudHostOverride(st.val.options))

getUIServer(st) ==
  CloudOverride(
    UIServerSection(
      HasOwn(WarnUIWebSocketServer(HasOwn(st, "uiWebSocketServer")), "uiServer")))

(***************************************************************************)
(* URIs and file paths.  A URI string is its scheme and the segments of    *)
(* its path; a string that is no absolute URL has the scheme "".           *)
(***************************************************************************)
Uri(scheme, path) == [href |-> [scheme |-> scheme, path |-> path]]

\* JavaScript truthiness.
Truthy(v) == v \notin {Undefined, JsNull, Bool(FALSE), Num(0), NaN, Str(""), Chars(<<>>), Uri("", <<>>)}

RECURSIVE Resolve(_, _)
\* Removes "." and resolves ".." against the segments collected so far.
Resolve(done, rest) ==
  IF rest = <<>> THEN done
  ELSE IF Head(rest) = "." THEN Resolve(done, Tail(rest))
  ELSE IF Head(rest) = ".."
       THEN Resolve(IF done = <<>> THEN done ELSE SubSeq(done, 1, Len(done) - 1), Tail(rest))
  ELSE Resolve(Append(done, Head(rest)), Tail(rest))

\* new URL(uri).pathname: the path with its dot segments resolved.
pathname(uri) == Resolve(<<>>, uri.href.path)

\* path.resolve(path.dirname(fileURLToPath(import.meta.url)), '../')
BaseDirectory == <<"install-dir">>

\* buildPerformanceUriFilePath(file): path.join normalises the joined path.
buildPerformanceUriFilePath(filePath) == Uri("file", Resolve(BaseDirectory, filePath))

\* getDefaultPerformanceStorageUri(storageType)
getDefaultPerformanceStorageUri(storageType) ==
  CASE storageType = Str("jsonfile") ->
         buildPerformanceUriFilePath(<<"DEFAULT_PERFORMANCE_RECORDS_FILENAME">>)
    [] storageType = Str("sqlite") ->
         buildPerformanceUriFilePath(<<"DEFAULT_PERFORMANCE_RECORDS_DB_NAME.db">>)
    [] OTHER -> Undefined

\* The storageConfiguration literal of getPerformanceStorage.
DefaultPerformanceStorage ==
  [enabled |-> Bool(FALSE),
   type |-> Str("jsonfile"),
   uri |-> getDefaultPerformanceStorageUri(Str("jsonfile"))]

\* The object built so far is the value of the accessor.
ReturnAcc(st) == Return(st, st.acc)

\* The mutant of SpreadBuiltUri that keeps the uri the section supplies.
SpreadBuiltUriVerbatim(st) == ReturnAcc(st)

\* uri: buildPerformanceUriFilePath(new URL(getConfig()?.performanceStorage?.uri).pathname)
SpreadBuiltUri(st) ==
  LET uri == Get(st.val, "uri")
  IN IF "href" \notin DOMAIN uri \/ uri.href.scheme = "" THEN Throw(st, "TypeError")
     ELSE Return(st, merge(st.acc, [uri |-> buildPerformanceUriFilePath(pathname(uri))]))

\* ... && getConfig()?.performanceStorage?.uri && { uri: ... }
IfUriGiven(st) ==
  IF Truthy(Get(st.val, "uri")) THEN SpreadBuiltUri(Opt(st, "performanceStorage"))
  ELSE ReturnAcc(st)

\* getConfig()?.performanceStorage?.type === StorageType.JSON_FILE && ...
IfJsonFile(st) ==
  IF isObject(st.val) /\ Get(st.val, "type") = Str("jsonfile")
  THEN IfUriGiven(Opt(st, "performanceStorage"))
  ELSE ReturnAcc(st)

\* { ...storageConfiguration, ...getConfig()?.performanceStorage, the section in val
SpreadStorageSection(st) ==
  [st EXCEPT !.acc = IF isObject(st.val) THEN merge(DefaultPerformanceStorage, st.val)
                     ELSE DefaultPerformanceStorage]

\* if (hasOwnProp(getConfig(), 'performanceStorage')) storageConfiguration = {...}
PerformanceStorageSection(st) ==
  IF Threw(st) THEN st
  ELSE IF st.val # Bool(TRUE) THEN Return(st, DefaultPerformanceStorage)
  ELSE IfJsonFile(Opt(SpreadStorageSection(Opt(st, "performanceStorage")),
                      "performanceStorage"))

getPerformanceStorage(st) ==
  PerformanceStorageSection(
    HasOwn(warnDeprecatedConfigurationKey(st, "URI", "performanceStorage"),
           "performanceStorage"))

RECURSIVE WarnAll(_, _)
\* Successive warnDeprecatedConfigurationKey(key, undefined, ...) calls.
WarnAll(st, keys) ==
  IF keys = <<>> THEN st
  ELSE WarnAll(warnDeprecatedConfigurationKey(st, Head(keys), ""), Tail(keys))

getAutoReconnectMaxRetries(st) ==
  OwnOr(WarnAll(st, <<"autoReconnectTimeout", "connectionTimeout",
                      "autoReconnectMaxRetries">>),
        "autoReconnectMaxRetries", Undefined)

\* The forEach over stationTemplateUrls: one console.error per element that
\* has the deprecated numberOfStation key.
RECURSIVE WarnNumberOfStation(_, _)
WarnNumberOfStation(st, urls) ==
  IF urls = <<>> THEN st
  ELSE WarnNumberOfStation(
         IF ~isUndefined(Get(Head(urls), "numberOfStation"))
         THEN Warn(st, "numberOfStation", "stationTemplateUrls")
         ELSE st,
         Tail(urls))

\* getConfig().canonical = <right-hand side>, the right-hand side being in val
AssignTo(st, canonical) ==
  IF Threw(st) THEN st
  ELSE [st EXCEPT !.configuration.doc = Put(@, canonical, st.val)]

\* !isUndefined(getConfig()[legacy]) && (getConfig().canonical = getConfig()[legacy]),
\* the first operand being in val
CopyLegacy(st, legacy, canonical) ==
  IF Threw(st) \/ isUndefined(st.val) THEN st
  ELSE AssignTo(Index(getConfig(st), legacy), canonical)

\* getConfig().stationTemplateUrls.forEach(...), the array being in val
ForEachTemplate(st) ==
  IF Threw(st) THEN st
  ELSE IF "arr" \notin DOMAIN st.val THEN Throw(st, "TypeError")
  ELSE WarnNumberOfStation(st, st.val.arr)

getStationTemplateUrls(st) ==
  Opt(ForEachTemplate(
        Index(CopyLegacy(
                Index(warnDeprecatedConfigurationKey(st, "stationTemplateURLs", ""),
                      "stationTemplateURLs"),
                "stationTemplateURLs", "stationTemplateUrls"),
              "stationTemplateUrls")),
      "stationTemplateUrls")

getSupervisionUrls(st) ==
  Opt(CopyLegacy(
        Index(warnDeprecatedConfigurationKey(st, "supervisionURLs", ""),
              "supervisionURLs"),
        "supervisionURLs", "supervisionUrls"),
      "supervisionUrls")

getSupervisionUrlDistribution(st) ==
  OwnOr(WarnAll(st, <<"distributeStationToTenantEqually",
                      "distributeStationsToTenantsEqually">>),
        "supervisionUrlDistribution", Const("SupervisionUrlDistribution.ROUND_ROBIN"))

\* The value in val becomes the property of that name of the object literal.
Field(st, name) == IF Threw(st) THEN st ELSE [st EXCEPT !.acc = Put(@, name, st.val)]

\* The keys getWorker passes to warnDeprecatedConfigurationKey, as written.
WorkerDeprecatedKeys ==
  <<"useWorkerPool", "workerProcess", "workerStartDelay",
    "chargingStationsPerWorker", "elementStartDelay", "workerPoolMinSize",
    "workerPoolSize;", "workerPoolMaxSize;", "workerPoolStrategy;">>

\* The properties of the workerConfiguration literal given as
\* hasOwnProp(getConfig(), key) ? getConfig()?.key : default, in order.
WorkerFields ==
  <<[name |-> "processType", key |-> "workerProcess",
     default |-> Const("WorkerProcessType.workerSet")],
    [name |-> "startDelay", key |-> "workerStartDelay",
     default |-> Const("DEFAULT_WORKER_START_DELAY")],
    [name |-> "elementsPerWorker", key |-> "chargingStationsPerWorker",
     default |-> Const("DEFAULT_ELEMENTS_PER_WORKER")],
    [name |-> "elementStartDelay", key |-> "elementStartDelay",
     default |-> Const("DEFAULT_ELEMENT_START_DELAY")],
    [name |-> "poolMinSize", key |-> "workerPoolMinSize",
     default |-> Const("DEFAULT_POOL_MIN_SIZE")],
    [name |-> "poolMaxSize", key |-> "workerPoolMaxSize",
     default |-> Const("DEFAULT_POOL_MAX_SIZE")]>>

RECURSIVE Fields(_, _)
Fields(st, fields) ==
  IF fields = <<>> THEN st
  ELSE Fields(Field(OwnOr(st, Head(fields).key, Head(fields).default),
                    Head(fields).name),
              Tail(fields))

\* val ?? default
NullishOr(st, default) ==
  IF ~Threw(st) /\ st.val \in {Undefined, JsNull} THEN Return(st, default) ELSE st

\* { ...workerConfiguration, ...getConfig()?.worker }, the section being in val
SpreadWorker(st) ==
  Return(st, IF isObject(st.val) THEN merge(st.acc, st.val) ELSE st.acc)

\* if (hasOwnProp(getConfig(), 'worker')) workerConfiguration = {...}
WorkerSection(st) ==
  IF Threw(st) THEN st
  ELSE IF st.val = Bool(TRUE) THEN SpreadWorker(Opt(st, "worker"))
  ELSE ReturnAcc(st)

getWorker(st) ==
  WorkerSection(
    HasOwn(Field(NullishOr(Opt(Fields(WarnAll(st, WorkerDeprecatedKeys), WorkerFields),
                               "workerPoolStrategy"),
                           Const("WorkerChoiceStrategies.ROUND_ROBIN")),
                 "poolStrategy"),
           "worker"))

getLogConsole(st) ==
  OwnOr(warnDeprecatedConfigurationKey(st, "consoleLog", ""), "logConsole", Bool(FALSE))

getLogFormat(st) == OwnOr(st, "logFormat", Str("simple"))

getLogRotate(st) == OwnOr(st, "logRotate", Bool(TRUE))

\* test && Configuration.getConfig()?.key, the test's value being in val
AndOpt(st, key) == IF st.val = Bool(TRUE) THEN Opt(st, key) ELSE st

\* hasOwnProp(getConfig(), 'logMaxFiles') && getConfig()?.logMaxFiles
getLogMaxFiles(st) == AndOpt(HasOwn(st, "logMaxFiles"), "logMaxFiles")

\* hasOwnProp(getConfig(), 'logMaxFiles') && getConfig()?.logMaxSize
getLogMaxSize(st) == AndOpt(HasOwn(st, "logMaxFiles"), "logMaxSize")

\* String.prototype.toLowerCase on the level names a document can hold.
toLowerCase(string) ==
  CASE string = Str("DEBUG") -> Str("debug")
    [] string = Str("Warn") -> Str("warn")
    [] OTHER -> string

\* ?.toLowerCase() on the value in val
OptToLowerCase(st) ==
  IF Threw(st) \/ isUndefined(st.val) THEN st ELSE Return(st, toLowerCase(st.val))

getLogLevel(st) == OptToLowerCase(OwnOr(st, "logLevel", Str("info")))

getLogFile(st) == OwnOr(st, "logFile", Str("combined.log"))

getLogErrorFile(st) ==
  OwnOr(warnDeprecatedConfigurationKey(st, "errorFile", ""), "logErrorFile", Str("error.log"))

AccessorNames ==
  {"getLogStatisticsInterval", "getUIServer", "getPerformanceStorage",
   "getAutoReconnectMaxRetries", "getStationTemplateUrls", "getWorker",
   "getLogConsole", "getLogFormat", "getLogRotate", "getLogMaxFiles",
   "getLogMaxSize", "getLogLevel", "getLogFile", "getLogErrorFile",
   "getSupervisionUrls", "getSupervisionUrlDistribution"}

\* The public accessor of that name, run as one task.
Accessor(name, st) ==
  CASE name = "getLogStatisticsInterval" -> getLogStatisticsInterval(st)
    [] name = "getUIServer" -> getUIServer(st)
    [] name = "getPerformanceStorage" -> getPerformanceStorage(st)
    [] name = "getAutoReconnectMaxRetries" -> getAutoReconnectMaxRetries(st)
    [] name = "getStationTemplateUrls" -> getStationTemplateUrls(st)
    [] name = "getWorker" -> getWorker(st)
    [] name = "getLogConsole" -> getLogConsole(st)
    [] name = "getLogFormat" -> getLogFormat(st)
    [] name = "getLogRotate" -> getLogRotate(st)
    [] name = "getLogMaxFiles" -> getLogMaxFiles(st)
    [] name = "getLogMaxSize" -> getLogMaxSize(st)
    [] name = "getLogLevel" -> getLogLevel(st)
    [] name = "getLogFile" -> getLogFile(st)
    [] name = "getLogErrorFile" -> getLogErrorFile(st)
    [] name = "getSupervisionUrls" -> getSupervisionUrls(st)
    [] OTHER -> getSupervisionUrlDistribution(st)

(***************************************************************************)
(* The watcher's listener and the reload callback.                         *)
(***************************************************************************)
IsSpace(c) == c = " "

RECURSIVE TrimStart(_)
TrimStart(chars) ==
  IF chars # <<>> /\ IsSpace(Head(chars)) THEN TrimStart(Tail(chars)) ELSE chars

RECURSIVE TrimEnd(_)
TrimEnd(chars) ==
  IF chars # <<>> /\ IsSpace(chars[Len(chars)])
  THEN TrimEnd(SubSeq(chars, 1, Len(chars) - 1))
  ELSE chars

\* String.prototype.trim
trim(string) == Chars(TrimEnd(TrimStart(string.chars)))

\* The mutant of Qualifies that tests the length of the filename as given.
QualifiesUntrimmed(event, filename) ==
  /\ filename \notin {Undefined, JsNull}
  /\ Len(filename.chars) > 0
  /\ event = "change"

\* filename?.trim().length > 0 && event === 'change'
Qualifies(event, filename) ==
  /\ filename \notin {Undefined, JsNull}
  /\ Len(trim(filename).chars) > 0
  /\ event = "change"

\* The mutant of Invalidate that starts a new cycle and keeps the document.
InvalidateKeepsDocument(st) ==
  [st EXCEPT !.cycle = NewCycle,
             !.effects = Append(@, [do |-> "invalidate"])]

Invalidate(st) ==
  [st EXCEPT !.configuration = Null,
             !.cycle = NewCycle,
             !.effects = Append(@, [do |-> "invalidate"])]

\* Configuration.configurationChangeCallback(): an execution of the callback
\* starts; it observes the cache as the listener left it.
InvokeCallback(st) ==
  [st EXCEPT !.running = @ + 1,
             !.effects = Append(@, [do |-> "invoke", callback |-> st.callback,
                                    cacheAbsent |-> IsNull(st.configuration)])]

\* The mutant of the listener that invokes the callback before it invalidates.
WatchListenerInvokesFirst(st, event, filename) ==
  IF ~Qualifies(event, filename) THEN st
  ELSE Invalidate(IF st.callback # NoCallback THEN InvokeCallback(st) ELSE st)

\* The listener given to fs.watch in getConfigurationFileWatcher.
WatchListener(st, event, filename) ==
  IF ~Qualifies(event, filename) THEN st
  ELSE IF st.callback # NoCallback THEN InvokeCallback(Invalidate(st))
  ELSE Invalidate(st)

\* The mutant of the .catch handler that re-throws every reason as it is.
catchHandlerUnwrapped(error) == error

\* The .catch handler on the callback's promise: the reason it re-throws.
catchHandler(error) == IF "str" \in DOMAIN error THEN [error |-> error.str] ELSE error

\* The mutant of setConfigurationChangeCallback that keeps the first registration.
setConfigurationChangeCallbackOnce(current, cb) ==
  IF current = NoCallback THEN cb ELSE current

\* setConfigurationChangeCallback(cb): the new value of the static field.
setConfigurationChangeCallback(current, cb) == cb

(***************************************************************************)
(* Documents, file contents and environments the model draws from.  Every  *)
(* document conforms to the ConfigurationData type.                        *)
(***************************************************************************)
TemplateA == [file |-> Str("a.json"), numberOfStations |-> Num(1)]
TemplateB == [file |-> Str("b.json"), numberOfStation |-> Num(2)]

DocA == [uiServer |-> [options |-> [host |-> Str("a")]],
         logMaxFiles |-> Num(1),
         logMaxSize |-> Num(10),
         supervisionURLs |-> Str("ws://a")]
DocB == [uiServer |-> [enabled |-> Bool(TRUE)],
         logMaxFiles |-> Num(2),
         logMaxSize |-> Num(20),
         supervisionUrls |-> Str("ws://b"),
         stationTemplateUrls |-> Arr(<<TemplateA>>)]

LifecycleDocs == {DocA, DocB}

Files == {FileMissing, FileMalformed} \cup {FileObject(d) : d \in LifecycleDocs}

\* Documents with a performanceStorage section: a JSON-file type with a uri,
\* with a uri that has dot segments, with no uri; another type with a uri;
\* no type and no uri; a uri and no type.
StorageDocs ==
  {[performanceStorage |->
      [type |-> Str("jsonfile"), uri |-> Uri("file", <<"anywhere", "data.json">>)]],
   [performanceStorage |->
      [enabled |-> Bool(TRUE), type |-> Str("jsonfile"),
       uri |-> Uri("file", <<"a", "..", "..", "data.json">>)]],
   [performanceStorage |-> [type |-> Str("jsonfile")]],
   [performanceStorage |->
      [enabled |-> Bool(TRUE), type |-> Str("mongodb"), uri |-> Uri("mongodb", <<"db">>)]],
   [performanceStorage |-> [enabled |-> Bool(TRUE)]],
   [performanceStorage |-> [uri |-> Uri("file", <<"x.json">>)]]}

\* Documents with logging keys.
LoggingDocs ==
  {[logMaxSize |-> Num(10)],
   [logMaxFiles |-> Num(7)],
   [logMaxFiles |-> Num(7), logMaxSize |-> Num(10), logLevel |-> Str("DEBUG"),
    logConsole |-> Bool(TRUE)],
   [logFormat |-> Str("printf"), logRotate |-> Bool(FALSE), logFile |-> Str("out.log"),
    logErrorFile |-> Str("err.log"), errorFile |-> Str("old.log")]}

\* Documents with legacy top-level worker keys and with a worker section.
WorkerDocs ==
  {[workerPoolMaxSize |-> Num(8)],
   [workerProcess |-> Str("dynamicPool"), workerStartDelay |-> Num(500)],
   [useWorkerPool |-> Bool(TRUE), workerPoolStrategy |-> Str("LEAST_USED"),
    workerPoolSize |-> Num(4)],
   [worker |-> [processType |-> Str("staticPool")],
    chargingStationsPerWorker |-> Num(2), elementStartDelay |-> Num(5),
    workerPoolMinSize |-> Num(1)]}

SectionDocs ==
  {EmptyObject,
   [uiServer |-> [options |-> [host |-> Str("x")]]],
   [uiServer |-> [enabled |-> Bool(TRUE)]],
   [uiServer |-> [enabled |-> Bool(TRUE), options |-> [host |-> Str("x"), port |-> Num(9)]]],
   [uiServer |-> [options |-> [port |-> Num(9)]], uiWebSocketServer |-> [enabled |-> Bool(TRUE)]],
   [stationTemplateURLs |-> Arr(<<TemplateA>>)],
   [stationTemplateUrls |-> Arr(<<TemplateB>>)],
   [stationTemplateURLs |-> Arr(<<TemplateA>>), stationTemplateUrls |-> Arr(<<TemplateB>>)],
   [supervisionURLs |-> Str("ws://legacy")],
   [supervisionUrls |-> Arr(<<Str("ws://one"), Str("ws://two")>>)],
   [supervisionURLs |-> Str("ws://legacy"), supervisionUrls |-> Str("ws://canonical")]}
  \cup StorageDocs \cup LoggingDocs \cup WorkerDocs

SectionFiles == {FileMissing, FileMalformed} \cup {FileObject(d) : d \in SectionDocs}

\* process.env: the cloud-hosting predicate and the platform-provided PORT.
Envs == {[cf |-> FALSE, PORT |-> Undefined],
         [cf |-> TRUE, PORT |-> Chars(<<"8", "0">>)],
         [cf |-> TRUE, PORT |-> Chars(<<"4", "4", "3">>)]}

Events == {"change", "rename"}
Filenames == {JsNull, Chars(<<>>), Chars(<<" ">>), Chars(<<"c", " ">>)}

\* Outcomes of an execution of the reload callback.
Outcomes == {[resolved |-> TRUE], Str("failed"), [error |-> "failed"]}

(***************************************************************************)
(* Initial state: the class is loaded, nothing has been read.              *)
(***************************************************************************)
InitWith(files, envs) ==
  /\ configuration = Null
  /\ configurationFileWatcher = FALSE
  /\ configurationChangeCallback = NoCallback
  /\ file \in files
  /\ env \in envs
  /\ instance = 0
  /\ running = 0
  /\ cycle = NewCycle
  /\ hist = [registered |-> NoCallback, late |-> FALSE]
  /\ last = [op |-> "init"]

\* The lifecycle of the cache, outside the cloud-hosting environment.
Init == InitWith(Files, {e \in Envs : ~e.cf})

InitSections == InitWith(SectionFiles, Envs)

(***************************************************************************)
(* Operations.                                                             *)
(***************************************************************************)
\* Configuration.setConfigurationChangeCallback(cb)
SetConfigurationChangeCallback(cb) ==
  /\ configurationChangeCallback' =
       setConfigurationChangeCallback(configurationChangeCallback, cb)
  /\ hist' = [registered |-> cb,
               late |-> configurationFileWatcher /\ hist.registered \notin {NoCallback, cb}]
  /\ last' = [op |-> "set", callback |-> cb]
  /\ UNCHANGED <<configuration, configurationFileWatcher, file, env, instance,
                 running, cycle>>

\* A call of a public accessor; the file system may replace the file content
\* by fileAfter after the accessor's changeAt-th getConfig call.
Call(name, changeAt, fileAfter) ==
  \E st \in {FileSystemEnd(Accessor(name, Task(changeAt, fileAfter)))} :
     /\ configuration' = st.configuration
     /\ configurationFileWatcher' = st.watcher
     /\ file' = st.file
     /\ instance' = st.instance
     /\ cycle' = [st.cycle EXCEPT !.accessed = TRUE]
     /\ last' = [op |-> name,
                 thrown |-> st.thrown,
                 result |-> IF Threw(st) THEN Undefined ELSE st.val,
                 before |-> configuration.id,
                 changed |-> changeAt > 0,
                 calls |-> st.calls,
                 reads |-> st.reads,
                 seen |-> st.seen,
                 sawNull |-> st.sawNull,
                 watches |-> st.watches,
                 warned |-> st.warned]
     /\ running' = st.running
     /\ UNCHANGED <<configurationChangeCallback, env, hist>>

\* fs.watch delivers an event to the listener.
Watch(event, filename) ==
  \E st \in {WatchListener(Task(0, file), event, filename)} :
     /\ configurationFileWatcher
     /\ running < MaxRunning
     /\ configuration' = st.configuration
     /\ cycle' = st.cycle
     /\ running' = st.running
     /\ last' = [op |-> "watch",
                 event |-> event,
                 filename |-> filename,
                 effects |-> st.effects]
     /\ UNCHANGED <<configurationFileWatcher, configurationChangeCallback, file,
                    env, instance, hist>>

\* An execution of the reload callback ends; a rejection reaches the .catch
\* handler, which throws.
Settle(outcome) ==
  /\ running > 0
  /\ running' = running - 1
  /\ last' = [op |-> "settle",
              outcome |-> outcome,
              raised |-> IF outcome = [resolved |-> TRUE] THEN Undefined
                         ELSE catchHandler(outcome)]
  /\ UNCHANGED <<configuration, configurationFileWatcher,
                 configurationChangeCallback, file, env, instance, cycle, hist>>

\* The file system replaces the content of the configuration file.
WriteFile(content) ==
  /\ content # file
  /\ file' = content
  /\ last' = [op |-> "write"]
  /\ UNCHANGED <<configuration, configurationFileWatcher,
                 configurationChangeCallback, env, instance, running, cycle, hist>>

\* One accessor for each way of reading the document: hasOwnProp and ?. with
\* no deprecation check first, the deprecation check, the in-place alias copy.
LifecycleAccessors ==
  {"getUIServer", "getLogMaxSize", "getWorker", "getSupervisionUrls"}

Next ==
  \/ \E cb \in Callbacks : SetConfigurationChangeCallback(cb)
  \/ \E name \in LifecycleAccessors, changeAt \in 0..MaxChangeAt, fileAfter \in Files :
       /\ (changeAt = 0) = (fileAfter = file)
       /\ Call(name, changeAt, fileAfter)
  \/ \E event \in Events, filename \in Filenames : Watch(event, filename)
  \/ \E outcome \in Outcomes : Settle(outcome)
  \/ \E content \in Files : WriteFile(content)

Spec == Init /\ [][Next]_vars

\* The accessors applied to a configuration file that stays as it is.
NextSections ==
  \/ \E name \in AccessorNames : Call(name, 0, file)
  \/ \E event \in Events, filename \in Filenames : Watch(event, filename)

SpecSections == InitSections /\ [][NextSections]_vars

(***************************************************************************)
(* Properties.                                                             *)
(***************************************************************************)
IsAccessorCall == last.op \in AccessorNames

\* A filename with at least one character that is not white space.
NonBlank(filename) ==
  /\ filename \notin {Undefined, JsNull}
  /\ \E i \in 1..Len(filename.chars) : filename.chars[i] # " "

IsChangeEvent == last.op = "watch" /\ last.event = "change" /\ NonBlank(last.filename)

\* C1: on a 'change' event with a non-empty filename the listener first sets
\* the cached document to absent and then, if a callback is registered,
\* invokes the most recently registered callback exactly once, the callback
\* observing the cache absent; with no callback registered it only invalidates.
C1_InvalidateThenInvoke ==
  IsChangeEvent =>
    /\ IsNull(configuration)
    /\ last.effects =
         IF hist.registered = NoCallback
         THEN <<[do |-> "invalidate"]>>
         ELSE <<[do |-> "invalidate"],
                [do |-> "invoke", callback |-> hist.registered, cacheAbsent |-> TRUE]>>

\* C1 witness: a change event invoked a callback that replaced an earlier
\* registration and was registered after the watcher was created.
C1_Witness ==
  /\ IsChangeEvent
  /\ Len(last.effects) = 2
  /\ hist.late

\* C2 as claimed: in every invalidation cycle in which an accessor is called
\* exactly one physical read+parse happens, also when the read or parse fails.
C2_ExactlyOneReadPerCycle ==
  /\ cycle.accessed => cycle.read
  /\ ~cycle.reread

\* C2 as amended: in a cycle in which an accessor is called at least one
\* read+parse happens, and once a read+parse has given a document no further
\* read happens in that cycle: the cache is present exactly when a read+parse
\* of the cycle gave a document, and an accessor that starts with the cache
\* present reads nothing.
C2_OneLoadPerCycle ==
  /\ cycle.accessed => cycle.read
  /\ ~cycle.readAfterLoad
  /\ cycle.loaded = ~IsNull(configuration)
  /\ (IsAccessorCall /\ last.before # 0) => last.reads = 0

\* C2 witness: a cycle in which a read failed, a later read gave the document,
\* and an accessor then made several getConfig calls without reading.
C2_Witness ==
  /\ cycle.reread
  /\ cycle.loaded
  /\ IsAccessorCall
  /\ last.before # 0
  /\ last.calls > 1
  /\ last.reads = 0

\* C3: with the cached document present, the getConfig calls of an accessor
\* return that instance, read nothing, create no watch subscription and leave
\* the cached reference, the watch handle and the callback as they are.
C3_CachedGetConfigIsPure ==
  [][(~IsNull(configuration) /\ last'.op \in AccessorNames) =>
       /\ last'.reads = 0
       /\ last'.watches = 0
       /\ last'.seen = {configuration.id}
       /\ ~last'.sawNull
       /\ configuration'.id = configuration.id
       /\ configurationFileWatcher' = configurationFileWatcher
       /\ configurationChangeCallback' = configurationChangeCallback]_vars

\* C3 witness: an accessor made several getConfig calls on a present cache,
\* with a watcher set and a callback registered.
C3_Witness ==
  /\ IsAccessorCall
  /\ last.before # 0
  /\ last.calls > 2
  /\ configurationFileWatcher
  /\ configurationChangeCallback # NoCallback

\* The value the accessor computes from a cached document alone.
ResultOn(name, doc) ==
  Accessor(name, [Task(0, file) EXCEPT !.configuration = Instance(1, doc)]).val

\* C4: within one accessor call every getConfig call that returns a document
\* returns the same instance; an accessor that starts with a cached document
\* reads only that instance, also when the file changes while it runs; and
\* the result is the one computed from that single document.
C4_OneDocumentPerAccessorCall ==
  IsAccessorCall =>
    /\ Cardinality(last.seen) <= 1
    /\ last.before # 0 => (last.seen = {last.before} /\ ~last.sawNull)
    /\ (last.thrown = "none" /\ last.seen # {}) =>
         /\ last.seen = {configuration.id}
         /\ last.result = ResultOn(last.op, configuration.doc)

\* C4 witness: the file was replaced while an accessor ran on a cached
\* document; the accessor made several reads of the configuration and its
\* result comes from the cached, pre-change document.
C4_Witness ==
  /\ IsAccessorCall
  /\ last.before # 0
  /\ last.changed
  /\ last.calls > 2
  /\ last.thrown = "none"
  /\ file # FileObject(configuration.doc)

\* C5 as claimed: the reload callback never runs concurrently with itself.
C5_NoOverlappingCallback == running <= 1

\* The built-in defaults of the accessors, outside the cloud-hosting environment.
BuiltInDefault(name) ==
  CASE name = "getLogStatisticsInterval" -> Const("DEFAULT_LOG_STATISTICS_INTERVAL")
    [] name = "getUIServer" ->
         [enabled |-> Bool(FALSE),
          type |-> Const("ApplicationProtocol.WS"),
          options |-> [host |-> Const("DEFAULT_UI_SERVER_HOST"),
                       port |-> Const("DEFAULT_UI_SERVER_PORT")]]
    [] name = "getPerformanceStorage" ->
         [enabled |-> Bool(FALSE),
          type |-> Str("jsonfile"),
          uri |-> Uri("file", <<"install-dir", "DEFAULT_PERFORMANCE_RECORDS_FILENAME">>)]
    [] name = "getWorker" ->
         [processType |-> Const("WorkerProcessType.workerSet"),
          startDelay |-> Const("DEFAULT_WORKER_START_DELAY"),
          elementsPerWorker |-> Const("DEFAULT_ELEMENTS_PER_WORKER"),
          elementStartDelay |-> Const("DEFAULT_ELEMENT_START_DELAY"),
          poolMinSize |-> Const("DEFAULT_POOL_MIN_SIZE"),
          poolMaxSize |-> Const("DEFAULT_POOL_MAX_SIZE"),
          poolStrategy |-> Const("WorkerChoiceStrategies.ROUND_ROBIN")]
    [] name = "getLogConsole" -> Bool(FALSE)
    [] name = "getLogFormat" -> Str("simple")
    [] name = "getLogRotate" -> Bool(TRUE)
    [] name = "getLogMaxFiles" -> Bool(FALSE)
    [] name = "getLogMaxSize" -> Bool(FALSE)
    [] name = "getLogLevel" -> Str("info")
    [] name = "getLogFile" -> Str("combined.log")
    [] name = "getLogErrorFile" -> Str("error.log")
    [] name = "getSupervisionUrlDistribution" ->
         Const("SupervisionUrlDistribution.ROUND_ROBIN")
    [] OTHER -> Undefined

ReturnsDefault ==
  /\ last.thrown = "none"
  /\ (last.op = "getUIServer" /\ env.cf) \/ last.result = BuiltInDefault(last.op)

\* C6 as claimed: when the read or the parse of the file fails, the document
\* stays absent and every accessor returns its built-in default without
\* throwing.
C6_FailedLoadGivesDefaults ==
  (IsAccessorCall /\ ~last.changed /\ file.kind \in {"missing", "malformed"}) =>
    /\ IsNull(configuration)
    /\ ReturnsDefault

\* C7 as claimed: on a loaded document with no keys every accessor returns
\* its built-in default without throwing.
C7_EmptyDocumentGivesDefaults ==
  (IsAccessorCall /\ ~last.changed /\ file = FileObject(EmptyObject)) =>
    /\ configuration.doc = EmptyObject
    /\ ReturnsDefault

\* C8 as claimed: getUIServer returns the document's value for every field
\* the uiServer section gives and the built-in default for every field it
\* does not give, at the top level and inside options.
C8_DeepMergeOverDefaults ==
  (/\ last.op = "getUIServer"
   /\ ~last.changed
   /\ ~env.cf
   /\ file.kind = "object"
   /\ "uiServer" \in DOMAIN file.doc) =>
    LET section == file.doc.uiServer
        given == Get(section, "options")
        defaults == BuiltInDefault("getUIServer")
    IN /\ last.thrown = "none"
       /\ \A k \in {"enabled", "type"} :
            Get(last.result, k) = IF k \in DOMAIN section THEN section[k] ELSE defaults[k]
       /\ \A k \in {"host", "port"} :
            Get(last.result.options, k) =
              IF ~isUndefined(given) /\ k \in DOMAIN given
              THEN given[k]
              ELSE defaults.options[k]

\* C9 as claimed: the legacy key is copied into the canonical key only when
\* the canonical key is absent; with both keys present the accessor returns
\* the canonical value and leaves it in the cached document; with only the
\* legacy key present the accessor returns the legacy value.
C9_LegacyAliasOnlyWhenCanonicalAbsent ==
  (/\ last.op \in {"getStationTemplateUrls", "getSupervisionUrls"}
   /\ ~last.changed
   /\ file.kind = "object") =>
    LET legacy == IF last.op = "getStationTemplateUrls"
                  THEN "stationTemplateURLs" ELSE "supervisionURLs"
        canonical == IF last.op = "getStationTemplateUrls"
                     THEN "stationTemplateUrls" ELSE "supervisionUrls"
        document == file.doc
    IN /\ (legacy \in DOMAIN document /\ canonical \in DOMAIN document) =>
            /\ last.result = document[canonical]
            /\ configuration.doc[canonical] = document[canonical]
       /\ (legacy \in DOMAIN document /\ canonical \notin DOMAIN document) =>
            /\ last.result = document[legacy]
            /\ configuration.doc[canonical] = document[legacy]

\* The number the platform gives in PORT.
PortNumber ==
  CASE env.PORT = Chars(<<"8", "0">>) -> Num(80)
    [] env.PORT = Chars(<<"4", "4", "3">>) -> Num(443)
    [] OTHER -> Undefined

\* C10: in the cloud-hosting environment getUIServer does not throw and
\* returns options whose port is the number in PORT and that have no host,
\* whatever the document holds and also when no document could be loaded.
C10_CloudHostOverride ==
  (last.op = "getUIServer" /\ env.cf) =>
    /\ last.thrown = "none"
    /\ "host" \notin DOMAIN last.result.options
    /\ last.result.options.port = PortNumber

\* C10 witness: the override applied to a document whose uiServer section
\* gives a host in its options; the result has the port of PORT and no host.
C10_Witness ==
  /\ last.op = "getUIServer"
  /\ env.cf
  /\ file.kind = "object"
  /\ "uiServer" \in DOMAIN file.doc
  /\ "options" \in DOMAIN file.doc.uiServer
  /\ "host" \in DOMAIN file.doc.uiServer.options
  /\ last.result.options = [port |-> Num(443)]

\* C11 as claimed: the reload callback is invoked only by a change event and
\* only after the reload that the event triggers has succeeded, so that it
\* finds the reloaded document in the cache.
C11_CallbackAfterSuccessfulReload ==
  last.op = "watch" =>
    \A i \in 1..Len(last.effects) :
      last.effects[i].do = "invoke" => ~last.effects[i].cacheAbsent

\* C11 as amended: an execution of the reload callback starts only in the
\* listener's handling of a 'change' event with a non-empty filename, one per
\* event, right after the invalidation and before any reload (the cache is
\* absent); no accessor call, and so no initial load, starts one.
C11_CallbackOnlyOnChangeEvent ==
  [][running' > running =>
       /\ IsChangeEvent'
       /\ running' = running + 1
       /\ configurationChangeCallback # NoCallback
       /\ IsNull(configuration')
       /\ last'.effects =
            <<[do |-> "invalidate"],
              [do |-> "invoke", callback |-> configurationChangeCallback,
               cacheAbsent |-> TRUE]>>]_vars

\* C11 witness: a callback was registered before the initial load, the load
\* invoked nothing, and a later change event invoked the callback while the
\* file could not be parsed.
C11_Witness ==
  /\ IsChangeEvent
  /\ Len(last.effects) = 2
  /\ running = 1
  /\ ~hist.late
  /\ instance = 1
  /\ file.kind = "malformed"

\* C12: when an execution of the reload callback ends in a rejection, the
\* .catch handler throws: an error carrying the string when the reason is a
\* string, the reason itself otherwise; the end of the callback, failed or
\* not, leaves the cache as the invalidation and later loads made it.
C12_CallbackFailureReRaised ==
  [][running' < running =>
       /\ last'.op = "settle"
       /\ configuration' = configuration
       /\ last'.outcome # [resolved |-> TRUE] =>
            /\ last'.raised # Undefined
            /\ "str" \in DOMAIN last'.outcome =>
                 last'.raised = [error |-> last'.outcome.str]
            /\ "str" \notin DOMAIN last'.outcome =>
                 last'.raised = last'.outcome]_vars

\* C12 witness: the callback invoked by a change event rejected with a raw
\* string, an error carrying the string was thrown, and the cache is still
\* absent.
C12_Witness ==
  /\ last.op = "settle"
  /\ last.outcome = Str("failed")
  /\ last.raised = [error |-> "failed"]
  /\ IsNull(configuration)
  /\ ~cycle.accessed

\* The alias copies an accessor may leave in a document loaded from source:
\* every property is the source's own, or a canonical key holding the value
\* of its legacy key in the source.
OnlyFrom(doc, source) ==
  \A k \in DOMAIN doc :
    \/ k \in DOMAIN source /\ doc[k] = source[k]
    \/ /\ k = "supervisionUrls"
       /\ "supervisionURLs" \in DOMAIN source
       /\ doc[k] = source["supervisionURLs"]
    \/ /\ k = "stationTemplateUrls"
       /\ "stationTemplateURLs" \in DOMAIN source
       /\ doc[k] = source["stationTemplateURLs"]

\* C13: the first accessor call of an invalidation cycle reads the file; when
\* no read gives a document the cache stays absent, and otherwise the value
\* returned is the one computed from the content read at that call and the
\* cached document holds nothing but that content and the alias copies made
\* from it.
C13_ReloadImmediatelyReflected ==
  [][(~cycle.accessed /\ last'.op \in AccessorNames) =>
       /\ last'.reads >= 1
       /\ last'.before = 0
       /\ (file.kind # "object" /\ file'.kind # "object") => IsNull(configuration')
       /\ ~IsNull(configuration') =>
            LET source == IF file.kind = "object" THEN file.doc ELSE file'.doc
            IN /\ OnlyFrom(configuration'.doc, source)
               /\ last'.thrown = "none" =>
                    last'.result = ResultOn(last'.op, source)]_vars

\* C13 witness: after an invalidation the first call of getSupervisionUrls
\* loaded a second document instance, one with no legacy key, and returned
\* its canonical value.
C13_Witness ==
  /\ last.op = "getSupervisionUrls"
  /\ last.before = 0
  /\ instance = 2
  /\ configuration.doc = DocB
  /\ last.result = Str("ws://b")
  /\ last.reads = 1

\* C14: when the document's performanceStorage has the JSON-file type and a
\* uri, the uri returned is the base directory joined with the path of the
\* supplied uri, and not the supplied uri; otherwise, and for the other
\* fields, the section's fields override the defaults and the fields the
\* section omits keep their defaults.
C14_PerformanceUriReRooted ==
  (/\ last.op = "getPerformanceStorage"
   /\ file.kind = "object"
   /\ "performanceStorage" \in DOMAIN file.doc) =>
    LET section == file.doc.performanceStorage
        defaults == BuiltInDefault("getPerformanceStorage")
        rerooted == /\ Get(section, "type") = Str("jsonfile")
                    /\ "uri" \in DOMAIN section
    IN /\ last.thrown = "none"
       /\ DOMAIN last.result = DOMAIN defaults \cup DOMAIN section
       /\ \A k \in DOMAIN last.result :
            last.result[k] =
              IF k = "uri" /\ rerooted
              THEN Uri("file", BaseDirectory \o pathname(section.uri))
              ELSE IF k \in DOMAIN section THEN section[k]
              ELSE defaults[k]
       /\ rerooted => last.result.uri # section.uri

\* C14 witness: a JSON-file section with the uri file:///anywhere/data.json
\* gives the uri of anywhere/data.json under the base directory.
C14_Witness ==
  /\ last.op = "getPerformanceStorage"
  /\ file.kind = "object"
  /\ Get(file.doc, "performanceStorage") =
       [type |-> Str("jsonfile"), uri |-> Uri("file", <<"anywhere", "data.json">>)]
  /\ last.result =
       [enabled |-> Bool(FALSE),
        type |-> Str("jsonfile"),
        uri |-> Uri("file", <<"install-dir", "anywhere", "data.json">>)]

\* C15 as claimed: between a load and the next invalidation the cached
\* document keeps the content that was loaded, the only changes being the
\* copies of stationTemplateURLs and supervisionURLs into their canonical
\* keys; in particular getUIServer leaves the uiServer section as loaded.
C15_CachedDocumentNotOverwritten ==
  (~IsNull(configuration) /\ file.kind = "object") =>
    /\ DOMAIN file.doc \subseteq DOMAIN configuration.doc
    /\ OnlyFrom(configuration.doc, file.doc)

\* C16: at most one watch subscription is ever created: an accessor call
\* creates at most one, creates none once the watch handle is set, and no
\* operation clears the handle or sets it without creating a subscription.
C16_AtMostOneWatchSubscription ==
  [][/\ last'.op \in AccessorNames =>
          /\ last'.watches <= 1
          /\ configurationFileWatcher => last'.watches = 0
          /\ configurationFileWatcher' = (configurationFileWatcher \/ last'.watches = 1)
     /\ last'.op \notin AccessorNames =>
          configurationFileWatcher' = configurationFileWatcher]_vars

\* C16 witness: with the subscription in place, a reload after an
\* invalidation read the file and created no subscription.
C16_Witness ==
  /\ IsAccessorCall
  /\ last.before = 0
  /\ last.reads >= 1
  /\ last.watches = 0
  /\ configurationFileWatcher
  /\ instance = 2
  /\ hist.registered # NoCallback

\* C17 as claimed: as long as no read and parse of the configuration file has
\* given a document, no watch subscription exists.
C17_WatcherOnlyAfterSuccessfulLoad ==
  configurationFileWatcher => instance # 0

\* C18: an event of another kind than 'change', or with a missing, empty or
\* whitespace-only filename, leaves the cache as it is and starts no
\* execution of the callback; the cache goes from present to absent only in
\* the handling of a 'change' event with a non-empty filename, and every
\* such event leaves it absent.
C18_OnlyChangeEventsInvalidate ==
  [][/\ (last'.op = "watch" /\ ~IsChangeEvent') =>
          /\ configuration' = configuration
          /\ running' = running
          /\ last'.effects = <<>>
     /\ (~IsNull(configuration) /\ IsNull(configuration')) => IsChangeEvent'
     /\ (last'.op = "watch" /\ IsChangeEvent') => IsNull(configuration')]_vars

\* C18 witness: a 'change' event with a whitespace-only filename arrived with
\* a document cached and a callback registered, and did nothing.
C18_Witness ==
  /\ last.op = "watch"
  /\ last.event = "change"
  /\ last.filename = Chars(<<" ">>)
  /\ last.effects = <<>>
  /\ ~IsNull(configuration)
  /\ configurationChangeCallback # NoCallback
  /\ running = 0

\* The logging accessors and the key of the document each one stands for.
LoggingAccessors ==
  {"getLogConsole", "getLogFormat", "getLogRotate", "getLogMaxFiles",
   "getLogMaxSize", "getLogLevel", "getLogFile", "getLogErrorFile"}

LoggingKey(name) ==
  CASE name = "getLogConsole" -> "logConsole"
    [] name = "getLogFormat" -> "logFormat"
    [] name = "getLogRotate" -> "logRotate"
    [] name = "getLogMaxFiles" -> "logMaxFiles"
    [] name = "getLogMaxSize" -> "logMaxSize"
    [] name = "getLogLevel" -> "logLevel"
    [] name = "getLogFile" -> "logFile"
    [] name = "getLogErrorFile" -> "logErrorFile"

\* C19 as claimed: the result of a logging accessor is the value of its own
\* key where the document has it (the level in lower case) and its built-in
\* default where not, whatever other logging keys the document has.
C19_LoggingKeysIndependent ==
  (last.op \in LoggingAccessors /\ file.kind = "object") =>
    /\ last.thrown = "none"
    /\ last.result =
         IF LoggingKey(last.op) \notin DOMAIN file.doc
         THEN BuiltInDefault(last.op)
         ELSE IF last.op = "getLogLevel"
              THEN toLowerCase(file.doc[LoggingKey(last.op)])
              ELSE file.doc[LoggingKey(last.op)]

\* The legacy top-level keys of the worker configuration.
LegacyWorkerKeys ==
  {"useWorkerPool", "workerProcess", "workerStartDelay",
   "chargingStationsPerWorker", "elementStartDelay", "workerPoolMinSize",
   "workerPoolSize", "workerPoolMaxSize", "workerPoolStrategy"}

\* The legacy keys whose values the result of getWorker is built from.
UsedLegacyWorkerKeys ==
  {WorkerFields[i].key : i \in DOMAIN WorkerFields} \cup {"workerPoolStrategy"}

\* C20 as claimed: one getWorker call emits, for every legacy worker key the
\* document has at top level, one deprecation warning that names the key; so
\* every legacy key whose value goes into the result is warned about.
C20_LegacyWorkerKeysWarned ==
  (last.op = "getWorker" /\ file.kind = "object") =>
    /\ last.thrown = "none"
    /\ \A key \in LegacyWorkerKeys \cup UsedLegacyWorkerKeys :
         key \in DOMAIN file.doc =>
           Cardinality({i \in DOMAIN last.warned : last.warned[i].key = key}) = 1

\* C21: an accessor call in which every read or parse fails leaves the cache
\* absent; and with the cache absent after a failed read, an accessor call
\* that finds the file readable and valid reads it once, caches its document
\* and returns the value computed from it, whether or not a file-change
\* event was delivered in between.
C21_RecoveryAfterFailedLoad ==
  [][/\ (/\ IsNull(configuration)
         /\ last'.op \in AccessorNames
         /\ file.kind # "object"
         /\ file'.kind # "object") =>
          /\ IsNull(configuration')
          /\ cycle'.read
          /\ ~cycle'.loaded
     /\ (/\ IsNull(configuration)
         /\ cycle.read
         /\ last'.op \in AccessorNames
         /\ file.kind = "object") =>
          /\ last'.before = 0
          /\ last'.reads = 1
          /\ ~IsNull(configuration')
          /\ OnlyFrom(configuration'.doc, file.doc)
          /\ last'.thrown = "none" =>
               last'.result = ResultOn(last'.op, file.doc)]_vars

\* C21 witness: a read failed in this cycle while the file was missing, so
\* that no watch subscription existed and no event could be delivered; the
\* accessor call that followed made the one read that gave the document,
\* created the subscription and returned the document's value, not the
\* default.
C21_Witness ==
  /\ IsAccessorCall
  /\ last.before = 0
  /\ last.reads = 1
  /\ last.watches = 1
  /\ cycle.reread
  /\ cycle.loaded
  /\ ~IsNull(configuration)
  /\ last.thrown = "none"
  /\ last.result = ResultOn(last.op, configuration.doc)
  /\ last.result # BuiltInDefault(last.op)

====
